---- MODULE Spec2Model ----
(***************************************************************************)
(* Port and role discovery of the LeRobot command-line front end:          *)
(* src/solo/commands/robots/lerobot/scan.py and ports.py.                  *)
(*                                                                         *)
(* Four state machines share this module, each with its own specification: *)
(*   SpecClassify  the two role classifiers (pure functions)               *)
(*   SpecProbe     one scan_dynamixel_port / scan_feetech_port call: the   *)
(*                 worker running _scan and the caller in run_with_timeout *)
(*   SpecDetect    one auto_detect_ports pass over the enumerated ports    *)
(*   SpecManual    one detect_arm_port call with its manual fallback       *)
(* A port is a positive integer i standing for the i-th device node in     *)
(* sorted order ("/dev/ttyACM0" is 1); Python's None is "None" for a       *)
(* string and NoPort for a port.                                           *)
(***************************************************************************)
EXTENDS Integers, Sequences, FiniteSets, TLC

VARIABLES
    \* ---- classifier calls (SpecClassify)
    clsCall,            \* the call being made: function name and arguments
    clsResult,          \* its return value, "pending" before the call
    \* ---- the operations on one port: bounded probes, voltage read (SpecProbe)
    family,             \* "dynamixel" | "feetech0" | "feetech1": scan function and protocol
    wpc,                \* position of the worker thread running _scan
    motor_id,           \* loop variable of the ping loop
    found,              \* _scan's found dict
    portOpen,           \* the current operation's port handler holds the port open
    leaked,             \* earlier operations whose handler still holds the port open
    wret,               \* value _scan returned to its future
    timer,              \* the timeout of future.result
    cpc,                \* position of the caller: inside run_with_timeout, after the
                        \* probe returned, inside read_feetech_voltage, or finished
    pending,            \* value run_with_timeout is about to return
    result,             \* value scan_*_port returned
    fault,              \* a transport fault has occurred during this probe
    pings,              \* motor ids the current scan has pinged, in order
    acked,              \* motor ids whose ping returned COMM_SUCCESS
    \* ---- one auto_detect_ports pass (SpecDetect)
    hw,                 \* what is attached to each present port
    robot_type,         \* the robot-type hint argument
    ports,              \* get_serial_ports() as read at the start of the pass
    idx,                \* position of the for loop in ports
    leader_port,
    follower_port,
    detected_robot_type,
    port_info,          \* one entry per port with motors, in scan order
    dpc,                \* position inside auto_detect_ports
    ret,                \* triple returned by auto_detect_ports
    both_ret,           \* triple returned by auto_detect_both_ports
    probe_log,          \* the scans issued by the pass, in order: [port, family]
    volt_log,           \* the voltage reads issued by the pass: [port, protocol]
    \* ---- one detect_arm_port call (SpecManual)
    arm_type,           \* the arm_type argument
    use_auto_detect,    \* the use_auto_detect argument
    osPorts,            \* device nodes currently present
    ports_before,
    ports_after,
    ports_unplugged,
    candidates,         \* new_ports / missing_ports as a list
    mpc,                \* position inside detect_arm_port
    flow,               \* which flow produced the answer
    mret,               \* outcome of detect_arm_port
    auto,               \* how the automatic stage of detect_arm_port ended
    mlog,               \* port snapshots taken and operator prompts issued, in order
    \* ---- two detect_arm_port calls in a row (SpecPair)
    session,            \* "single" | "bimanual" | "retry": who calls detect_arm_port
    config,             \* whether detect_and_retry_ports was given a config
    stage,              \* which of the two calls is running
    first_ret,          \* outcome of the first call
    pair_ret,           \* outcome of detect_bimanual_arm_ports / detect_and_retry_ports
    \* ---- calls of get_serial_ports on one OS port state (SpecEnum)
    platform,           \* sys.platform
    pyserial,           \* whether "from serial.tools import list_ports" succeeds
    os_nodes,           \* the serial ports the OS has
    reported,           \* the order the OS reported the ports in to the latest call
    enum_results        \* what the calls made so far returned

varsClassify == <<clsCall, clsResult>>
varsProbe == <<family, wpc, motor_id, found, portOpen, leaked, wret, timer, cpc, pending,
               result, fault, pings, acked>>
varsDetect == <<hw, robot_type, ports, idx, leader_port, follower_port,
                detected_robot_type, port_info, dpc, ret, both_ret, probe_log, volt_log>>
varsManual == <<arm_type, use_auto_detect, osPorts, ports_before, ports_after,
                ports_unplugged, candidates, mpc, flow, mret, auto, mlog,
                session, config, stage, first_ret, pair_ret>>
varsPair == <<session, config, stage, first_ret, pair_ret>>
varsEnum == <<platform, pyserial, os_nodes, reported, enum_results>>
vars == <<varsClassify, varsProbe, varsDetect, varsManual, varsEnum>>

(***************************************************************************)
(* Program constants                                                       *)
(***************************************************************************)
KOCH_LEADER_MODELS == {1190}
KOCH_FOLLOWER_MODELS == {1060, 1200, 1020, 1120, 1070}
SO_LEADER_MODELS == {777}
SO_FOLLOWER_MODELS == {777, 2825}

\* voltage < 8.0 on voltage_raw / 10.0, kept in the register's 0.1 V units
VoltageThresholdRaw == 80
\* Present_Voltage is a one-byte register
MaxVoltageRaw == 255
\* range(1, 21)
LastMotorId == 20
\* Python's None where a port is expected
NoPort == 0

(***************************************************************************)
(* Role classifiers                                                        *)
(***************************************************************************)
\* Model numbers the classifier is exercised on: every known Dynamixel and
\* Feetech model, and one number (5) in none of the sets.
ModelUniverse == KOCH_LEADER_MODELS \cup KOCH_FOLLOWER_MODELS \cup SO_FOLLOWER_MODELS \cup {5}

detect_arm_type_from_models_NoSubsetTest(models, motor_brand) ==
    IF models = {} THEN "None"
    ELSE IF motor_brand = "dynamixel"
         THEN IF models \cap KOCH_LEADER_MODELS # {} THEN "leader"
              ELSE IF models \cap KOCH_FOLLOWER_MODELS # {} THEN "follower"
              ELSE "None"
    ELSE IF motor_brand = "feetech"
         THEN IF models \cap SO_LEADER_MODELS # {} \/ models \cap SO_FOLLOWER_MODELS # {}
              THEN "unknown"
              ELSE "None"
    ELSE "None"

detect_arm_type_from_models(models, motor_brand) ==
    IF models = {} THEN "None"
    ELSE IF motor_brand = "dynamixel"
         THEN IF models \subseteq KOCH_LEADER_MODELS THEN "leader"
              ELSE IF models \cap KOCH_FOLLOWER_MODELS # {} THEN "follower"
              ELSE "None"
    ELSE IF motor_brand = "feetech"
         THEN IF models \cap SO_LEADER_MODELS # {} \/ models \cap SO_FOLLOWER_MODELS # {}
              THEN "unknown"
              ELSE "None"
    ELSE "None"

\* What the bus does on one read_feetech_voltage call: the port fails to
\* open (a missing SDK returns None the same way), the transfer raises, or
\* read1ByteTxRx returns (raw, comm result).
VoltageReads ==
    {[open |-> FALSE, raises |-> FALSE, success |-> FALSE, raw |-> 0],
     [open |-> TRUE, raises |-> TRUE, success |-> FALSE, raw |-> 0]}
    \cup [open : {TRUE}, raises : {FALSE}, success : BOOLEAN, raw : 0..MaxVoltageRaw]

\* Optional[float] in 0.1 V units: [ok |-> FALSE] is None.
read_feetech_voltage(rd) ==
    IF ~rd.open THEN [ok |-> FALSE, v |-> 0]
    ELSE IF rd.raises THEN [ok |-> FALSE, v |-> 0]
    ELSE IF rd.success /\ rd.raw # 0 THEN [ok |-> TRUE, v |-> rd.raw]
    ELSE [ok |-> FALSE, v |-> 0]

detect_so_arm_type_by_voltage(rd) ==
    LET voltage == read_feetech_voltage(rd) IN
    IF ~voltage.ok THEN "None"
    ELSE IF voltage.v < VoltageThresholdRaw THEN "leader"
    ELSE "follower"

(***************************************************************************)
(* Values the variables of a machine hold while another machine runs       *)
(***************************************************************************)
EmptyMap == [i \in {} |-> 0]

IdleClassify ==
    /\ clsCall = [fn |-> "none"]
    /\ clsResult = "pending"

IdleProbe ==
    /\ family = "dynamixel"
    /\ wpc = "idle"
    /\ motor_id = 1
    /\ found = EmptyMap
    /\ portOpen = FALSE
    /\ leaked = {}
    /\ wret = EmptyMap
    /\ timer = "idle"
    /\ cpc = "idle"
    /\ pending = EmptyMap
    /\ result = EmptyMap
    /\ fault = FALSE
    /\ pings = <<>>
    /\ acked = {}

IdleDetect ==
    /\ hw = EmptyMap
    /\ robot_type = "None"
    /\ ports = <<>>
    /\ idx = 1
    /\ leader_port = NoPort
    /\ follower_port = NoPort
    /\ detected_robot_type = "None"
    /\ port_info = <<>>
    /\ dpc = "idle"
    /\ ret = <<NoPort, NoPort, "None">>
    /\ both_ret = <<NoPort, NoPort, "None">>
    /\ probe_log = <<>> /\ volt_log = <<>>

PairPending == [kind |-> "pending", ports |-> <<NoPort, NoPort>>, saved |-> FALSE]

IdlePair ==
    /\ session = "single"
    /\ config = FALSE
    /\ stage = 1
    /\ first_ret = [kind |-> "pending"]
    /\ pair_ret = PairPending

IdleManual ==
    /\ IdlePair
    /\ arm_type = "leader"
    /\ use_auto_detect = FALSE
    /\ osPorts = {}
    /\ ports_before = {}
    /\ ports_after = {}
    /\ ports_unplugged = {}
    /\ candidates = <<>>
    /\ mpc = "idle"
    /\ flow = "none"
    /\ mret = [kind |-> "pending"]
    /\ auto = [outcome |-> "pending", port |-> NoPort]
    /\ mlog = <<>>

IdleEnum ==
    /\ platform = "linux"
    /\ pyserial = TRUE
    /\ os_nodes = {}
    /\ reported = <<>>
    /\ enum_results = <<>>

(***************************************************************************)
(* SpecClassify: each classifier applied to every input of its domain      *)
(***************************************************************************)
Values(m) == {m[i] : i \in DOMAIN m}

\* What a scan of one family can return: {motor_id: model_number}.
DxlMaps == {EmptyMap, 1 :> 1190, 1 :> 1060, 1 :> 1190 @@ 2 :> 1060, 1 :> 5}
FtMaps == {EmptyMap, 1 :> 777}

\* The port's attachment c gives the map each scan of it returns (SpecProbe
\* is the scan itself).
scan_dynamixel_port(c) == c.dxl
scan_feetech_port(c, protocol) == IF protocol = 0 THEN c.ft0 ELSE c.ft1

detect_robot_type_from_port_TagByModel(c) ==
    IF scan_dynamixel_port(c) # EmptyMap
    THEN <<"koch", "dynamixel", scan_dynamixel_port(c)>>
    ELSE IF scan_feetech_port(c, 0) # EmptyMap
    THEN <<IF 777 \in Values(scan_feetech_port(c, 0)) THEN "so101" ELSE "so100",
           "feetech", scan_feetech_port(c, 0)>>
    ELSE IF scan_feetech_port(c, 1) # EmptyMap
    THEN <<"so100", "feetech", scan_feetech_port(c, 1)>>
    ELSE <<"None", "None", EmptyMap>>

\* (robot_type, motor_brand, motors_found)
detect_robot_type_from_port(c) ==
    IF scan_dynamixel_port(c) # EmptyMap
    THEN <<"koch", "dynamixel", scan_dynamixel_port(c)>>
    ELSE IF scan_feetech_port(c, 0) # EmptyMap
    THEN <<"so101", "feetech", scan_feetech_port(c, 0)>>
    ELSE IF scan_feetech_port(c, 1) # EmptyMap
    THEN <<"so100", "feetech", scan_feetech_port(c, 1)>>
    ELSE <<"None", "None", EmptyMap>>

ProbeFamilies == <<"dynamixel", "feetech0", "feetech1">>

ProbesIssued_NoEarlyStop(c) == ProbeFamilies

\* The scans detect_robot_type_from_port issues on a port with attachment c:
\* each "if <motors>: return" ends the function before the next scan.
ProbesIssued(c) ==
    IF scan_dynamixel_port(c) # EmptyMap THEN SubSeq(ProbeFamilies, 1, 1)
    ELSE IF scan_feetech_port(c, 0) # EmptyMap THEN SubSeq(ProbeFamilies, 1, 2)
    ELSE ProbeFamilies

\* Attachments for detect_robot_type_from_port on its own: any of these maps
\* from any of the three scans.
ScanMaps == DxlMaps \cup FtMaps \cup {1 :> 2825, 1 :> 777 @@ 2 :> 2825}

ClassifyCalls ==
    [fn : {"detect_arm_type_from_models"}, models : SUBSET ModelUniverse,
     motor_brand : {"dynamixel", "feetech"}]
    \cup [fn : {"detect_so_arm_type_by_voltage"}, rd : VoltageReads]
    \cup [fn : {"detect_robot_type_from_port"},
          c : [dxl : ScanMaps, ft0 : ScanMaps, ft1 : ScanMaps]]

InitClassify ==
    /\ clsCall \in ClassifyCalls
    /\ clsResult = "pending"
    /\ IdleProbe /\ IdleDetect /\ IdleManual /\ IdleEnum

CallDetectArmTypeFromModels ==
    /\ clsCall.fn = "detect_arm_type_from_models"
    /\ clsResult = "pending"
    /\ clsResult' = detect_arm_type_from_models(clsCall.models, clsCall.motor_brand)
    /\ UNCHANGED <<clsCall, varsProbe, varsDetect, varsManual, varsEnum>>

CallDetectSoArmTypeByVoltage ==
    /\ clsCall.fn = "detect_so_arm_type_by_voltage"
    /\ clsResult = "pending"
    /\ clsResult' = detect_so_arm_type_by_voltage(clsCall.rd)
    /\ UNCHANGED <<clsCall, varsProbe, varsDetect, varsManual, varsEnum>>

\* clsResult is the triple (robot_type, motor_brand, motors_found)
CallDetectRobotTypeFromPort ==
    /\ clsCall.fn = "detect_robot_type_from_port"
    /\ clsResult = "pending"
    /\ clsResult' = detect_robot_type_from_port(clsCall.c)
    /\ UNCHANGED <<clsCall, varsProbe, varsDetect, varsManual, varsEnum>>

NextClassify ==
    \/ CallDetectArmTypeFromModels
    \/ CallDetectSoArmTypeByVoltage
    \/ CallDetectRobotTypeFromPort

SpecClassify == InitClassify /\ [][NextClassify]_vars

(***************************************************************************)
(* SpecProbe: scan_dynamixel_port / scan_feetech_port.  The caller submits *)
(* _scan to a one-worker ThreadPoolExecutor inside a with block and waits  *)
(* on future.result(timeout); leaving the with block runs                  *)
(* executor.shutdown(wait=True), which joins the worker thread.            *)
(***************************************************************************)
\* At most this many motors answer on one bus.
MaxMotors == 2

\* Model numbers a ping or a model-number register read can report; a
\* register read reports 0 when it fails.
ProbeModels == {777, 1190}

Put_KeyShifted(m, k, v) == [i \in DOMAIN m \cup {k + 1} |-> IF i = k + 1 THEN v ELSE m[i]]

\* found[motor_id] = model_number
Put(m, k, v) == [i \in DOMAIN m \cup {k} |-> IF i = k THEN v ELSE m[i]]

InitProbe ==
    /\ family \in {"dynamixel", "feetech0", "feetech1"}
    /\ wpc = "idle"
    /\ motor_id = 1
    /\ found = EmptyMap
    /\ portOpen = FALSE
    /\ leaked = {}
    /\ wret = EmptyMap
    /\ timer = "idle"
    /\ cpc = "start"
    /\ pending = EmptyMap
    /\ result = EmptyMap
    /\ fault = FALSE
    /\ pings = <<>>
    /\ acked = {}
    /\ IdleClassify /\ IdleDetect /\ IdleManual /\ IdleEnum

OtherMachines == UNCHANGED <<varsClassify, varsDetect, varsManual, varsEnum>>

ProbeFrame == UNCHANGED <<family, leaked>> /\ OtherMachines

\* run_with_timeout: executor.submit(func), then future.result(timeout=timeout)
Submit ==
    /\ cpc = "start"
    /\ cpc' = "waiting"
    /\ timer' = "running"
    /\ wpc' = "import"
    /\ UNCHANGED <<motor_id, found, portOpen, wret, pending, result, fault>>
    /\ UNCHANGED <<pings, acked>>
    /\ ProbeFrame

\* _scan: the SDK import fails, return {}
ImportError ==
    /\ wpc = "import"
    /\ wpc' = "returned"
    /\ wret' = EmptyMap
    /\ UNCHANGED <<motor_id, found, portOpen, timer, cpc, pending, result, fault>>
    /\ UNCHANGED <<pings, acked>>
    /\ ProbeFrame

ImportOk ==
    /\ wpc = "import"
    /\ wpc' = "open"
    /\ UNCHANGED <<motor_id, found, portOpen, wret, timer, cpc, pending, result, fault>>
    /\ UNCHANGED <<pings, acked>>
    /\ ProbeFrame

\* openPort() returns False: return {}
OpenFails ==
    /\ wpc = "open"
    /\ wpc' = "returned"
    /\ wret' = EmptyMap
    /\ fault' = TRUE
    /\ UNCHANGED <<motor_id, found, portOpen, timer, cpc, pending, result>>
    /\ UNCHANGED <<pings, acked>>
    /\ ProbeFrame

\* PortHandler(port) or openPort() raises: the except clause, then return found
OpenRaises ==
    /\ wpc = "open"
    /\ wpc' = "returned"
    /\ wret' = found
    /\ fault' = TRUE
    /\ UNCHANGED <<motor_id, found, portOpen, timer, cpc, pending, result>>
    /\ UNCHANGED <<pings, acked>>
    /\ ProbeFrame

\* openPort() succeeds, setBaudRate, enter the loop at motor_id = 1.  A fault
\* in setBaudRate leaves the state PingRaises leaves at motor_id = 1.
OpenOk ==
    /\ wpc = "open"
    /\ wpc' = "scan"
    /\ portOpen' = TRUE
    /\ motor_id' = 1
    /\ UNCHANGED <<found, wret, timer, cpc, pending, result, fault>>
    /\ UNCHANGED <<pings, acked>>
    /\ ProbeFrame

\* ping: result is not COMM_SUCCESS, next id
PingNoResponse ==
    /\ wpc = "scan"
    /\ motor_id <= LastMotorId
    /\ motor_id' = motor_id + 1
    /\ pings' = Append(pings, motor_id)
    /\ UNCHANGED <<wpc, found, portOpen, wret, timer, cpc, pending, result, fault, acked>>
    /\ ProbeFrame

\* The model number _scan stores for an answering motor: the ping's for
\* Dynamixel; for Feetech the register read's unless that is falsy.
StoredModel(fam, model_number, model_nb) ==
    IF fam = "dynamixel" THEN model_number
    ELSE IF model_nb # 0 THEN model_nb ELSE model_number

\* The call inside the loop body that fails (raises or never returns) is the
\* ping of motor_id or, for Feetech, the register read after a successful
\* ping; at motor_id = 1 it can also be setBaudRate, before any ping.
FailingCall(fam, id) ==
    {"ping"} \cup (IF fam = "dynamixel" THEN {} ELSE {"read"})
             \cup (IF id = 1 THEN {"setBaudRate"} ELSE {})

PingsUpTo(call, log, id) == IF call = "setBaudRate" THEN log ELSE Append(log, id)

AckedUpTo(call, ok, id) == IF call = "read" THEN ok \cup {id} ELSE ok

PingSuccess ==
    /\ wpc = "scan"
    /\ motor_id <= LastMotorId
    /\ Cardinality(DOMAIN found) < MaxMotors
    /\ \E model_number \in ProbeModels, model_nb \in ProbeModels \cup {0} :
          found' = Put(found, motor_id, StoredModel(family, model_number, model_nb))
    /\ motor_id' = motor_id + 1
    /\ pings' = Append(pings, motor_id)
    /\ acked' = acked \cup {motor_id}
    /\ UNCHANGED <<wpc, portOpen, wret, timer, cpc, pending, result, fault>>
    /\ ProbeFrame

\* ping or read2ByteTxRx raises: the except clause skips closePort, return found
PingRaises ==
    /\ wpc = "scan"
    /\ motor_id <= LastMotorId
    /\ wpc' = "returned"
    /\ wret' = found
    /\ fault' = TRUE
    /\ \E call \in FailingCall(family, motor_id) :
          /\ pings' = PingsUpTo(call, pings, motor_id)
          /\ acked' = AckedUpTo(call, acked, motor_id)
    /\ UNCHANGED <<motor_id, found, portOpen, timer, cpc, pending, result>>
    /\ ProbeFrame

\* a serial call never returns: the worker thread stays inside it
IoHangs ==
    /\ wpc \in {"open", "scan"}
    /\ wpc = "scan" => motor_id <= LastMotorId
    /\ wpc' = "hung"
    /\ IF wpc = "scan"
       THEN \E call \in FailingCall(family, motor_id) :
               /\ pings' = PingsUpTo(call, pings, motor_id)
               /\ acked' = AckedUpTo(call, acked, motor_id)
       ELSE UNCHANGED <<pings, acked>>
    /\ UNCHANGED <<motor_id, found, portOpen, wret, timer, cpc, pending, result, fault>>
    /\ ProbeFrame

\* loop exhausted: closePort(), return found
CloseAndReturn ==
    /\ wpc = "scan"
    /\ motor_id = LastMotorId + 1
    /\ portOpen' = FALSE
    /\ wpc' = "returned"
    /\ wret' = found
    /\ UNCHANGED <<motor_id, found, timer, cpc, pending, result, fault>>
    /\ UNCHANGED <<pings, acked>>
    /\ ProbeFrame

\* future.result returns the worker's value before the timeout
ResultReady ==
    /\ cpc = "waiting"
    /\ wpc = "returned"
    /\ pending' = wret
    /\ cpc' = "exiting"
    /\ timer' = "cancelled"
    /\ UNCHANGED <<wpc, motor_id, found, portOpen, wret, result, fault>>
    /\ UNCHANGED <<pings, acked>>
    /\ ProbeFrame

\* future.result raises TimeoutError: except FuturesTimeoutError, return default
Timeout ==
    /\ cpc = "waiting"
    /\ wpc # "returned"
    /\ pending' = EmptyMap
    /\ cpc' = "exiting"
    /\ timer' = "fired"
    /\ UNCHANGED <<wpc, motor_id, found, portOpen, wret, result, fault>>
    /\ UNCHANGED <<pings, acked>>
    /\ ProbeFrame

\* The with block's exit, executor.shutdown(wait=True), returns once the
\* worker thread has ended.
ShutdownCanReturn(w) == w = "returned"

\* leave the with block, run_with_timeout returns pending, scan_*_port returns
\* it (pending is never None: the default passed is {})
ExitWith ==
    /\ cpc = "exiting"
    /\ ShutdownCanReturn(wpc)
    /\ cpc' = "returned"
    /\ result' = pending
    /\ UNCHANGED <<wpc, motor_id, found, portOpen, wret, timer, pending, fault>>
    /\ UNCHANGED <<pings, acked>>
    /\ ProbeFrame

CallerStep == Submit \/ ResultReady \/ Timeout \/ ExitWith

\* KeyboardInterrupt is raised in the main thread inside future.result: neither
\* except clause of run_with_timeout matches it, so the with block is left
\* with the exception in flight and its exit runs executor.shutdown(wait=True).
Interrupt ==
    /\ cpc = "waiting"
    /\ cpc' = "unwinding"
    /\ timer' = "cancelled"
    /\ UNCHANGED <<wpc, motor_id, found, portOpen, wret, pending, result, fault>>
    /\ UNCHANGED <<pings, acked>>
    /\ ProbeFrame

\* shutdown has joined the worker: the KeyboardInterrupt leaves
\* run_with_timeout and every caller above it (none catches it).
PropagateInterrupt ==
    /\ cpc = "unwinding"
    /\ ShutdownCanReturn(wpc)
    /\ cpc' = "interrupted"
    /\ UNCHANGED <<wpc, motor_id, found, portOpen, wret, timer, pending, result, fault>>
    /\ UNCHANGED <<pings, acked>>
    /\ ProbeFrame

\* KeyboardInterrupt is raised while the main thread is inside the with
\* block's exit: it leaves the join and propagates.
InterruptInExit ==
    /\ cpc \in {"exiting", "unwinding"}
    /\ cpc' = "interrupted"
    /\ UNCHANGED <<wpc, motor_id, found, portOpen, wret, timer, pending, result, fault>>
    /\ UNCHANGED <<pings, acked>>
    /\ ProbeFrame

\* The handlers still holding the port open once the current operation is over.
LeftOpen == IF portOpen THEN leaked \cup {family} ELSE leaked

\* detect_robot_type_from_port: the scan returned an empty map, so the scan of
\* the next family is called on the same port.
NextFamily ==
    /\ cpc = "returned"
    /\ result = EmptyMap
    /\ family # "feetech1"
    /\ family' = (IF family = "dynamixel" THEN "feetech0" ELSE "feetech1")
    /\ leaked' = LeftOpen
    /\ portOpen' = FALSE
    /\ wpc' = "idle"
    /\ motor_id' = 1
    /\ found' = EmptyMap
    /\ wret' = EmptyMap
    /\ timer' = "idle"
    /\ cpc' = "start"
    /\ pending' = EmptyMap
    /\ fault' = FALSE
    /\ pings' = <<>>
    /\ acked' = {}
    /\ UNCHANGED result
    /\ OtherMachines

\* auto_detect_ports: a Feetech scan found motors, detect_so_arm_type_by_voltage
\* calls read_feetech_voltage on the same port, in the caller's thread;
\* openPort() succeeds.
VoltageOpen ==
    /\ cpc = "returned"
    /\ family \in {"feetech0", "feetech1"}
    /\ result # EmptyMap
    /\ leaked' = LeftOpen
    /\ portOpen' = TRUE
    /\ cpc' = "voltage"
    /\ UNCHANGED <<family, wpc, motor_id, found, wret, timer, pending, result, fault>>
    /\ UNCHANGED <<pings, acked>>
    /\ OtherMachines

\* read_feetech_voltage: the import fails, PortHandler raises or openPort()
\* returns False: return None
VoltageOpenFails ==
    /\ cpc = "returned"
    /\ family \in {"feetech0", "feetech1"}
    /\ result # EmptyMap
    /\ leaked' = LeftOpen
    /\ portOpen' = FALSE
    /\ cpc' = "done"
    /\ UNCHANGED <<family, wpc, motor_id, found, wret, timer, pending, result, fault>>
    /\ UNCHANGED <<pings, acked>>
    /\ OtherMachines

\* read_feetech_voltage: read1ByteTxRx returns, closePort(), return
VoltageRead ==
    /\ cpc = "voltage"
    /\ portOpen' = FALSE
    /\ cpc' = "done"
    /\ UNCHANGED <<wpc, motor_id, found, wret, timer, pending, result, fault>>
    /\ UNCHANGED <<pings, acked>>
    /\ ProbeFrame

\* read_feetech_voltage: setBaudRate or read1ByteTxRx raises: the except
\* clause returns None, closePort() is skipped
VoltageRaises ==
    /\ cpc = "voltage"
    /\ cpc' = "done"
    /\ UNCHANGED <<wpc, motor_id, found, portOpen, wret, timer, pending, result, fault>>
    /\ UNCHANGED <<pings, acked>>
    /\ ProbeFrame

\* read_feetech_voltage: setBaudRate or read1ByteTxRx never returns. The call
\* is made directly in the caller's thread, not through run_with_timeout, so
\* the caller stays inside it.
VoltageHangs ==
    /\ cpc = "voltage"
    /\ cpc' = "voltage_hung"
    /\ UNCHANGED <<wpc, motor_id, found, portOpen, wret, timer, pending, result, fault>>
    /\ UNCHANGED <<pings, acked>>
    /\ ProbeFrame

\* The function that created a handler has returned without closePort(); no
\* reference to the handler is left, and the interpreter may finalize it at
\* any later time, or never, which closes the port.
FinalizeCurrent ==
    /\ portOpen
    /\ wpc = "returned"
    /\ cpc \notin {"voltage", "voltage_hung"}
    /\ portOpen' = FALSE
    /\ UNCHANGED <<wpc, motor_id, found, wret, timer, cpc, pending, result, fault>>
    /\ UNCHANGED <<pings, acked>>
    /\ ProbeFrame

FinalizeLeaked ==
    /\ \E f \in leaked : leaked' = leaked \ {f}
    /\ UNCHANGED <<family, wpc, motor_id, found, portOpen, wret, timer, cpc, pending,
                   result, fault>>
    /\ UNCHANGED <<pings, acked>>
    /\ OtherMachines

NextProbe ==
    \/ Submit \/ ImportError \/ ImportOk \/ OpenFails \/ OpenRaises \/ OpenOk
    \/ PingNoResponse \/ PingSuccess \/ PingRaises \/ IoHangs \/ CloseAndReturn
    \/ ResultReady \/ Timeout \/ ExitWith
    \/ Interrupt \/ PropagateInterrupt \/ InterruptInExit
    \/ NextFamily \/ VoltageOpen \/ VoltageOpenFails \/ VoltageRead \/ VoltageRaises
    \/ VoltageHangs
    \/ FinalizeCurrent \/ FinalizeLeaked

SpecProbe == InitProbe /\ [][NextProbe]_vars

\* One scan_dynamixel_port / scan_feetech_port call on its own: the worker's
\* _scan and the caller in run_with_timeout.
NextScan ==
    \/ Submit \/ ImportError \/ ImportOk \/ OpenFails \/ OpenRaises \/ OpenOk
    \/ PingNoResponse \/ PingSuccess \/ PingRaises \/ IoHangs \/ CloseAndReturn
    \/ ResultReady \/ Timeout \/ ExitWith

SpecScan == InitProbe /\ [][NextScan]_vars

(***************************************************************************)
(* SpecDetect: auto_detect_ports, and auto_detect_both_ports around it.    *)
(* hw maps each present port to what is attached to it, given as what each *)
(* probe of the port returns (SpecProbe is the probe itself) and what the  *)
(* bus does on the voltage read of motor 1.                                *)
(***************************************************************************)
\* At most this many serial ports are present.
MaxPorts == 3

CommFail == [open |-> TRUE, raises |-> FALSE, success |-> FALSE, raw |-> 0]
DetectVoltageReads ==
    {CommFail,
     [open |-> TRUE, raises |-> FALSE, success |-> TRUE, raw |-> 48],
     [open |-> TRUE, raises |-> FALSE, success |-> TRUE, raw |-> 120]}

\* Attachments: a Dynamixel bus (one of them also answering Feetech
\* protocol 0), a Feetech bus answering one protocol, or nothing.  The
\* voltage read only matters where a Feetech probe is reached.
HwConfigs ==
    {c \in [dxl : DxlMaps, ft0 : FtMaps, ft1 : FtMaps, volt : DetectVoltageReads] :
        /\ c.dxl # EmptyMap =>
              /\ c.volt = CommFail
              /\ c.ft1 = EmptyMap
              /\ c.ft0 # EmptyMap => c.dxl = 1 :> 1190
        /\ c.dxl = EmptyMap =>
              /\ c.ft0 = EmptyMap \/ c.ft1 = EmptyMap
              /\ (c.ft0 = EmptyMap /\ c.ft1 = EmptyMap) => c.volt = CommFail}

RobotTypeHints == {"None", "koch", "so100", "so101"}

Min(S) == CHOOSE x \in S : \A y \in S : x <= y

RECURSIVE Sorted(_)
Sorted(S) == IF S = {} THEN <<>> ELSE <<Min(S)>> \o Sorted(S \ {Min(S)})

\* The glob branch: the device nodes present, sorted.
get_serial_ports(present) == Sorted(present)

\* The role auto_detect_ports computes for a port with motors.
PortArmType(c) ==
    LET d == detect_robot_type_from_port(c) IN
    IF d[2] = "dynamixel"
    THEN detect_arm_type_from_models(Values(d[3]), "dynamixel")
    ELSE detect_so_arm_type_by_voltage(c.volt)

EmptyPortsResult_KeepsHint(hint) == <<NoPort, NoPort, hint>>

\* if not ports: return None, None, None
EmptyPortsResult(hint) == <<NoPort, NoPort, "None">>

UpdateRobotType_LastWins(detected, port_robot_type) ==
    IF port_robot_type # "None" THEN port_robot_type ELSE detected

\* if detected_robot_type is None and port_robot_type: ...
UpdateRobotType(detected, port_robot_type) ==
    IF detected = "None" /\ port_robot_type # "None" THEN port_robot_type ELSE detected

AssignSlots_Overwrite(at, port, lp, fp) ==
    IF at = "leader" THEN <<port, fp>>
    ELSE IF at = "follower" THEN <<lp, port>>
    ELSE <<lp, fp>>

AssignSlots_FollowerUnchecked(at, port, lp, fp) ==
    <<IF at = "leader" /\ lp = NoPort THEN port ELSE lp,
      IF fp = NoPort THEN port ELSE fp>>

\* if arm_type == "leader" and leader_port is None: ... elif arm_type ==
\* "follower" and follower_port is None: ...   (leader_port, follower_port)
AssignSlots(at, port, lp, fp) ==
    IF at = "leader" /\ lp = NoPort THEN <<port, fp>>
    ELSE IF at = "follower" /\ fp = NoPort THEN <<lp, port>>
    ELSE <<lp, fp>>

\* The body of "for port in ports" on the pass's locals st, for a port with
\* attachment c.
LoopBody(st, port, c) ==
    LET d == detect_robot_type_from_port(c)
        at == PortArmType(c)
        slots == AssignSlots(at, port, st.leader_port, st.follower_port)
    IN IF d[3] # EmptyMap
       THEN [leader_port |-> slots[1],
             follower_port |-> slots[2],
             detected_robot_type |-> UpdateRobotType(st.detected_robot_type, d[1]),
             port_info |-> Append(st.port_info,
                 [port |-> port, arm_type |-> at, motor_brand |-> d[2]])]
       ELSE st

\* read_feetech_voltage(port, motor_id=1): the protocol argument is left at
\* its default, def read_feetech_voltage(..., protocol: int = 0)
VoltageReadProtocol == 0

\* The protocol of the scan_feetech_port call that returned motors
MatchedProtocol(c) == IF scan_feetech_port(c, 0) # EmptyMap THEN 0 ELSE 1

\* The voltage reads one loop iteration issues: one, on a port whose motors
\* were found by a Feetech scan.
VoltageReadsIssued(port, c) ==
    IF detect_robot_type_from_port(c)[2] = "feetech"
    THEN <<[port |-> port, protocol |-> VoltageReadProtocol]>>
    ELSE <<>>

LoopContinues_StopWhenBothFound(i, ps, lp, fp) ==
    i <= Len(ps) /\ (lp = NoPort \/ fp = NoPort)

\* for port in ports: the loop has no break, it ends when ports is exhausted,
\* whatever leader_port and follower_port hold
LoopContinues(i, ps, lp, fp) == i <= Len(ps)

RECURSIVE LoopFrom(_, _, _, _)
LoopFrom(st, ps, i, h) ==
    IF ~LoopContinues(i, ps, st.leader_port, st.follower_port) THEN st
    ELSE LoopFrom(LoopBody(st, ps[i], h[ps[i]]), ps, i + 1, h)

\* auto_detect_ports as one call, on the attachments h of the present ports
auto_detect_ports(h, hint) ==
    LET ps == get_serial_ports(DOMAIN h)
        st == LoopFrom([leader_port |-> NoPort, follower_port |-> NoPort,
                        detected_robot_type |-> hint, port_info |-> <<>>], ps, 1, h)
    IN IF ps = <<>> THEN EmptyPortsResult(hint)
       ELSE <<st.leader_port, st.follower_port, st.detected_robot_type>>

\* (port, detected_robot_type)
auto_detect_single_port(at, hint, h) ==
    LET r == auto_detect_ports(h, hint) IN
    IF at = "leader" THEN <<r[1], r[3]>>
    ELSE IF at = "follower" THEN <<r[2], r[3]>>
    ELSE <<NoPort, r[3]>>

InitDetect ==
    /\ \E present \in SUBSET (1..MaxPorts) : hw \in [present -> HwConfigs]
    /\ robot_type \in RobotTypeHints
    /\ ports = <<>>
    /\ idx = 1
    /\ leader_port = NoPort
    /\ follower_port = NoPort
    /\ detected_robot_type = "None"
    /\ port_info = <<>>
    /\ dpc = "start"
    /\ ret = <<NoPort, NoPort, "None">>
    /\ both_ret = <<NoPort, NoPort, "None">>
    /\ probe_log = <<>> /\ volt_log = <<>>
    /\ IdleClassify /\ IdleProbe /\ IdleManual /\ IdleEnum

DetectFrame ==
    UNCHANGED <<hw, robot_type, both_ret, varsClassify, varsProbe, varsManual, varsEnum>>

\* ports = get_serial_ports(); the early return or the initialisation of the pass
DetectStart ==
    /\ dpc = "start"
    /\ ports' = get_serial_ports(DOMAIN hw)
    /\ IF ports' = <<>>
       THEN /\ ret' = EmptyPortsResult(robot_type)
            /\ dpc' = "returned"
            /\ UNCHANGED detected_robot_type
       ELSE /\ detected_robot_type' = robot_type
            /\ dpc' = "loop"
            /\ UNCHANGED ret
    /\ UNCHANGED <<idx, leader_port, follower_port, port_info, probe_log, volt_log>>
    /\ DetectFrame

\* one iteration of: for port in ports
DetectPort ==
    /\ dpc = "loop"
    /\ LoopContinues(idx, ports, leader_port, follower_port)
    /\ LET st == LoopBody([leader_port |-> leader_port, follower_port |-> follower_port,
                           detected_robot_type |-> detected_robot_type,
                           port_info |-> port_info], ports[idx], hw[ports[idx]])
       IN /\ leader_port' = st.leader_port
          /\ follower_port' = st.follower_port
          /\ detected_robot_type' = st.detected_robot_type
          /\ port_info' = st.port_info
    /\ probe_log' = probe_log \o
          [k \in 1..Len(ProbesIssued(hw[ports[idx]])) |->
              [port |-> ports[idx], family |-> ProbesIssued(hw[ports[idx]])[k]]]
    /\ volt_log' = volt_log \o VoltageReadsIssued(ports[idx], hw[ports[idx]])
    /\ idx' = idx + 1
    /\ UNCHANGED <<ports, dpc, ret>>
    /\ DetectFrame

\* return leader_port, follower_port, detected_robot_type
DetectReturn ==
    /\ dpc = "loop"
    /\ ~LoopContinues(idx, ports, leader_port, follower_port)
    /\ ret' = <<leader_port, follower_port, detected_robot_type>>
    /\ dpc' = "returned"
    /\ UNCHANGED <<ports, idx, leader_port, follower_port, detected_robot_type,
                   port_info, probe_log, volt_log>>
    /\ DetectFrame

\* auto_detect_both_ports: return auto_detect_ports(robot_type, verbose=True)
BothReturn ==
    /\ dpc = "returned"
    /\ both_ret' = ret
    /\ dpc' = "done"
    /\ UNCHANGED <<hw, robot_type, ports, idx, leader_port, follower_port,
                   detected_robot_type, port_info, ret, probe_log, volt_log>>
    /\ UNCHANGED <<varsClassify, varsProbe, varsManual, varsEnum>>

NextDetect == DetectStart \/ DetectPort \/ DetectReturn \/ BothReturn

SpecDetect == InitDetect /\ [][NextDetect]_vars

(***************************************************************************)
(* SpecManual: detect_arm_port.  The automatic stage runs on whatever is   *)
(* attached when it is called; the manual stages block in input() and      *)
(* Prompt.ask, during which the operator plugs and unplugs at will and     *)
(* types a line.                                                           *)
(***************************************************************************)
\* Longest line the operator types at the selection prompt.
MaxInputLen == 2

InputChars == {"0", "1", "2", "3", "4", "a", "-", " "}
DigitValue == "0" :> 0 @@ "1" :> 1 @@ "2" :> 2 @@ "3" :> 3 @@ "4" :> 4
InputLines == UNION {[1..n -> InputChars] : n \in 0..MaxInputLen}

\* Attachments seen by the automatic stage and by the robot-type probe of
\* the manual stage.
ManualHwConfigs ==
    {c \in HwConfigs : c.ft0 = EmptyMap /\ c.ft1 = EmptyMap
                       /\ c.dxl \in {EmptyMap, 1 :> 1190, 1 :> 1060}}

ArmTypes == {"leader", "follower", "left leader"}

RECURSIVE StripLeft(_)
StripLeft(s) == IF s # <<>> /\ Head(s) = " " THEN StripLeft(Tail(s)) ELSE s

RECURSIVE StripRight(_)
StripRight(s) ==
    IF s # <<>> /\ s[Len(s)] = " " THEN StripRight(SubSeq(s, 1, Len(s) - 1)) ELSE s

\* str.strip()
Strip(s) == StripRight(StripLeft(s))

\* Prompt.ask(..., default="1"): the default on an empty line, else the
\* stripped line
PromptAsk(line, default) == IF line = <<>> THEN default ELSE Strip(line)

RECURSIVE DigitsValue(_, _)
DigitsValue(s, acc) ==
    IF s = <<>> THEN acc ELSE DigitsValue(Tail(s), 10 * acc + DigitValue[Head(s)])

AllDigits(s) == s # <<>> /\ \A i \in 1..Len(s) : s[i] \in DOMAIN DigitValue

\* int(text): [ok |-> FALSE] is ValueError
IntOf(text) ==
    LET t == Strip(text) IN
    IF t # <<>> /\ Head(t) = "-"
    THEN IF AllDigits(Tail(t)) THEN [ok |-> TRUE, v |-> 0 - DigitsValue(Tail(t), 0)]
         ELSE [ok |-> FALSE, v |-> 0]
    ELSE IF AllDigits(t) THEN [ok |-> TRUE, v |-> DigitsValue(t, 0)]
    ELSE [ok |-> FALSE, v |-> 0]

\* list(set(...)): the elements once each, in an order the program does not fix
ListsOf(S) ==
    {q \in [1..Cardinality(S) -> S] : \A i, j \in 1..Cardinality(S) : q[i] = q[j] => i = j}

Selected_OutOfRangeLast(cands, k) ==
    IF 1 <= k /\ k <= Len(cands) THEN cands[k] ELSE cands[Len(cands)]

SnapshotDiff_NoSubtraction(later, earlier) == later

\* list(set(ports_after) - set(ports_before)), and the same for missing_ports
SnapshotDiff(later, earlier) == later \ earlier

\* if 1 <= choice <= len(cands): cands[choice - 1]   else: cands[0]
Selected(cands, k) ==
    IF 1 <= k /\ k <= Len(cands) THEN cands[k] ELSE cands[1]

\* if detected_robot_type is None: detect_robot_type_from_port(port); if
\* auto_robot_type: detected_robot_type = auto_robot_type
ProbedRobotType(detected, c) ==
    IF detected = "None"
    THEN LET t == detect_robot_type_from_port(c)[1] IN IF t # "None" THEN t ELSE detected
    ELSE detected

\* Every outcome of int(Prompt.ask("Enter port number", default="1")) over the
\* lines the operator can type.
PromptChoices == {IntOf(PromptAsk(line, <<"1">>)) : line \in InputLines}

Returned(port, rtype) == [kind |-> "returned", port |-> port, robot_type |-> rtype]
Raised(error) == [kind |-> "raised", error |-> error]

InitManual ==
    /\ arm_type \in ArmTypes
    /\ robot_type \in {"None", "koch"}
    /\ use_auto_detect \in BOOLEAN
    /\ osPorts \in SUBSET (1..MaxPorts)
    /\ ports_before = {}
    /\ ports_after = {}
    /\ ports_unplugged = {}
    /\ candidates = <<>>
    /\ mpc = "start"
    /\ flow = "none"
    /\ mret = [kind |-> "pending"]
    /\ auto = [outcome |-> "pending", port |-> NoPort]
    /\ mlog = <<>>
    /\ hw = EmptyMap /\ ports = <<>> /\ idx = 1 /\ leader_port = NoPort
    /\ follower_port = NoPort /\ detected_robot_type = "None" /\ port_info = <<>>
    /\ dpc = "idle" /\ ret = <<NoPort, NoPort, "None">>
    /\ both_ret = <<NoPort, NoPort, "None">> /\ probe_log = <<>> /\ volt_log = <<>>
    /\ IdlePair
    /\ IdleClassify /\ IdleProbe /\ IdleEnum

ManualFrame ==
    UNCHANGED <<arm_type, use_auto_detect, robot_type, hw, ports, idx, leader_port,
                follower_port, port_info, dpc, ret, both_ret, probe_log, volt_log,
                varsPair, varsClassify, varsProbe, varsEnum>>

\* The ways the automatic stage can end with these ports present: switched
\* off, an exception caught by "except Exception", or auto_detect_single_port
\* returning (port, robot_type) for some attachments of the present ports.
AutoOutcomes(use, at, hint, present) ==
    IF ~use THEN {[outcome |-> "disabled", port |-> NoPort, robot_type |-> "None"]}
    ELSE {[outcome |-> "raised", port |-> NoPort, robot_type |-> "None"]}
         \cup {[outcome |-> "completed",
                port |-> auto_detect_single_port(at, hint, h)[1],
                robot_type |-> auto_detect_single_port(at, hint, h)[2]] :
               h \in [present -> ManualHwConfigs]}

ReturnsFromAuto_NoPortTest(o) == o.outcome = "completed"

\* if port: ... return port, detected_robot_type
ReturnsFromAuto(o) == o.outcome = "completed" /\ o.port # NoPort

\* Entry: the automatic stage found the port and returns it.
\* detected_robot_type holds detect_arm_port's local of that name.
AutoDetected ==
    /\ mpc = "start"
    /\ \E o \in AutoOutcomes(use_auto_detect, arm_type, robot_type, osPorts) :
          /\ ReturnsFromAuto(o)
          /\ auto' = [outcome |-> o.outcome, port |-> o.port]
          /\ detected_robot_type' =
                (IF o.robot_type # "None" /\ robot_type = "None"
                 THEN o.robot_type ELSE robot_type)
          /\ mret' = Returned(o.port, detected_robot_type')
    /\ flow' = "auto"
    /\ mpc' = "done"
    /\ UNCHANGED <<osPorts, ports_before, ports_after, ports_unplugged, candidates, mlog>>
    /\ ManualFrame

\* Entry: automatic detection is off, raised, or found no port for the role;
\* snapshot ports_before and block in input() on the plug-in prompt.
ManualStart ==
    /\ mpc = "start"
    /\ \E o \in AutoOutcomes(use_auto_detect, arm_type, robot_type, osPorts) :
          /\ ~ReturnsFromAuto(o)
          /\ auto' = [outcome |-> o.outcome, port |-> o.port]
    /\ detected_robot_type' = robot_type
    /\ ports_before' = osPorts
    /\ flow' = "plug"
    /\ mpc' = "wait_plug"
    /\ mlog' = <<"snapshot_before", "prompt_plug">>
    /\ UNCHANGED <<osPorts, ports_after, ports_unplugged, candidates, mret>>
    /\ ManualFrame

OffersUnplugFlow_Never(before) == FALSE

\* elif len(new_ports) == 0: if len(ports_before) > 0: (unplug/replug flow)
\* else: return None, detected_robot_type
OffersUnplugFlow(before) == before # {}

\* The operator changes what is plugged in and presses Enter; ports_after is
\* read and compared with ports_before.
PlugEnter ==
    /\ mpc = "wait_plug"
    /\ \E now \in SUBSET (1..MaxPorts) :
          /\ osPorts' = now
          /\ ports_after' = now
          /\ LET new_ports == SnapshotDiff(now, ports_before) IN
             \/ /\ Cardinality(new_ports) = 1
                /\ \E port \in new_ports, c \in ManualHwConfigs :
                      /\ detected_robot_type' = ProbedRobotType(detected_robot_type, c)
                      /\ mret' = Returned(port, detected_robot_type')
                /\ mpc' = "done"
                /\ mlog' = Append(mlog, "snapshot_after")
                /\ UNCHANGED <<candidates, flow>>
             \/ /\ Cardinality(new_ports) = 0
                /\ IF OffersUnplugFlow(ports_before)
                   THEN /\ mpc' = "wait_unplug"
                        /\ flow' = "unplug"
                        /\ mlog' = mlog \o <<"snapshot_after", "prompt_unplug">>
                        /\ UNCHANGED mret
                   ELSE /\ mpc' = "done"
                        /\ mret' = Returned(NoPort, detected_robot_type)
                        /\ mlog' = Append(mlog, "snapshot_after")
                        /\ UNCHANGED flow
                /\ UNCHANGED <<candidates, detected_robot_type>>
             \/ /\ Cardinality(new_ports) > 1
                /\ candidates' \in ListsOf(new_ports)
                /\ mpc' = "choose_new"
                /\ mlog' = mlog \o <<"snapshot_after", "prompt_select">>
                /\ UNCHANGED <<mret, flow, detected_robot_type>>
    /\ UNCHANGED <<ports_before, ports_unplugged>>
    /\ UNCHANGED auto
    /\ ManualFrame

\* The operator changes what is plugged in and presses Enter on the unplug
\* prompt; ports_unplugged is read and compared with ports_before.
UnplugEnter ==
    /\ mpc = "wait_unplug"
    /\ \E now \in SUBSET (1..MaxPorts) :
          /\ osPorts' = now
          /\ ports_unplugged' = now
          /\ LET missing_ports == SnapshotDiff(ports_before, now) IN
             \/ /\ Cardinality(missing_ports) = 1
                /\ candidates' \in ListsOf(missing_ports)
                /\ mpc' = "wait_replug_one"
                /\ mlog' = mlog \o <<"snapshot_unplugged", "prompt_replug">>
                /\ UNCHANGED mret
             \/ /\ Cardinality(missing_ports) = 0
                /\ mpc' = "done"
                /\ mret' = Returned(NoPort, detected_robot_type)
                /\ mlog' = Append(mlog, "snapshot_unplugged")
                /\ UNCHANGED candidates
             \/ /\ Cardinality(missing_ports) > 1
                /\ candidates' \in ListsOf(missing_ports)
                /\ mpc' = "choose_missing"
                /\ mlog' = mlog \o <<"snapshot_unplugged", "prompt_select">>
                /\ UNCHANGED mret
    /\ UNCHANGED <<ports_before, ports_after, flow, detected_robot_type>>
    /\ UNCHANGED auto
    /\ ManualFrame

\* The single missing port: the operator presses Enter on the plug-back
\* prompt, the robot type is probed, the port is returned.
ReplugOneEnter ==
    /\ mpc = "wait_replug_one"
    /\ \E now \in SUBSET (1..MaxPorts), c \in ManualHwConfigs :
          /\ osPorts' = now
          /\ detected_robot_type' = ProbedRobotType(detected_robot_type, c)
          /\ mret' = Returned(candidates[1], detected_robot_type')
    /\ mpc' = "done"
    /\ UNCHANGED <<ports_before, ports_after, ports_unplugged, candidates, flow, mlog>>
    /\ UNCHANGED auto
    /\ ManualFrame

\* Several new ports: choice = int(Prompt.ask("Enter port number", default="1"))
ChooseNew ==
    /\ mpc = "choose_new"
    /\ \E choice \in PromptChoices :
          IF choice.ok
          THEN mret' = Returned(Selected(candidates, choice.v), detected_robot_type)
          ELSE mret' = Raised("ValueError")
    /\ mpc' = "done"
    /\ UNCHANGED <<osPorts, ports_before, ports_after, ports_unplugged, candidates,
                   flow, detected_robot_type, mlog>>
    /\ UNCHANGED auto
    /\ ManualFrame

\* Several missing ports: the same prompt, then the plug-back prompt
ChooseMissing ==
    /\ mpc = "choose_missing"
    /\ \E choice \in PromptChoices :
          IF choice.ok
          THEN /\ candidates' = <<Selected(candidates, choice.v)>>
               /\ mpc' = "wait_replug_chosen"
               /\ mlog' = Append(mlog, "prompt_replug")
               /\ UNCHANGED mret
          ELSE /\ mret' = Raised("ValueError")
               /\ mpc' = "done"
               /\ UNCHANGED <<candidates, mlog>>
    /\ UNCHANGED <<osPorts, ports_before, ports_after, ports_unplugged,
                   flow, detected_robot_type>>
    /\ UNCHANGED auto
    /\ ManualFrame

\* The chosen missing port: Enter on the plug-back prompt, the port is returned.
ReplugChosenEnter ==
    /\ mpc = "wait_replug_chosen"
    /\ \E now \in SUBSET (1..MaxPorts) : osPorts' = now
    /\ mret' = Returned(candidates[1], detected_robot_type)
    /\ mpc' = "done"
    /\ UNCHANGED <<ports_before, ports_after, ports_unplugged, candidates,
                   flow, detected_robot_type, mlog>>
    /\ UNCHANGED auto
    /\ ManualFrame

NextManual ==
    \/ AutoDetected \/ ManualStart \/ PlugEnter \/ UnplugEnter \/ ReplugOneEnter
    \/ ChooseNew \/ ChooseMissing \/ ReplugChosenEnter

SpecManual == InitManual /\ [][NextManual]_vars

\* ---------------------------------------------------------------------------
\* SpecRobotType: auto_detect_robot_type over the attachments hw of the
\* enumerated ports, as a call with a set of possible results.
\* ---------------------------------------------------------------------------

\* port_info: the ports with motors, in enumeration order
PortsWithMotors(h) ==
    SelectSeq(get_serial_ports(DOMAIN h),
              LAMBDA p : detect_robot_type_from_port(h[p])[3] # EmptyMap)

\* detected_types = set(); detected_types.add(robot_type) for ports with motors
DetectedTypes(h) ==
    {detect_robot_type_from_port(h[PortsWithMotors(h)[i]])[1] :
        i \in DOMAIN PortsWithMotors(h)} \ {"None"}

\* set.pop() removes and returns an arbitrary element: which one depends on
\* the hash order of the strings, which changes from run to run.
SetPop(S) == S

\* The robot types a call can return.
auto_detect_robot_type(h) ==
    IF DOMAIN h = {} THEN {"None"}
    ELSE IF Cardinality(DetectedTypes(h)) = 1 THEN SetPop(DetectedTypes(h))
    ELSE IF Cardinality(DetectedTypes(h)) > 1 THEN SetPop(DetectedTypes(h))
    ELSE {"None"}

InitRobotType ==
    /\ \E present \in SUBSET (1..MaxPorts) :
          clsCall \in [fn : {"auto_detect_robot_type"}, hw : [present -> HwConfigs]]
    /\ clsResult = "pending"
    /\ IdleProbe /\ IdleDetect /\ IdleManual /\ IdleEnum

CallAutoDetectRobotType ==
    /\ clsCall.fn = "auto_detect_robot_type"
    /\ clsResult = "pending"
    /\ \E t \in auto_detect_robot_type(clsCall.hw) :
          clsResult' = <<"returned", t, PortsWithMotors(clsCall.hw)>>
    /\ UNCHANGED <<clsCall, varsProbe, varsDetect, varsManual, varsEnum>>

NextRobotType == CallAutoDetectRobotType

SpecRobotType == InitRobotType /\ [][NextRobotType]_vars

\* ---------------------------------------------------------------------------
\* SpecPair: detect_bimanual_arm_ports and detect_and_retry_ports, each two
\* detect_arm_port calls in a row with default robot_type=None and
\* use_auto_detect=True. The calls are the actions of NextManual.
\* ---------------------------------------------------------------------------

\* detect_arm_port(f"left {arm_type}") / detect_arm_port("leader")
FirstArmType(sess) == IF sess = "bimanual" THEN "left leader" ELSE "leader"

\* detect_arm_port(f"right {arm_type}") / detect_arm_port("follower")
SecondArmType(sess) == IF sess = "bimanual" THEN "right leader" ELSE "follower"

AttemptsRight_Always(left_port) == TRUE

\* if not left_port: return None, None   (the right arm is detected otherwise)
AttemptsRight(left_port) == left_port # NoPort

\* if new_leader_port and new_follower_port:
BothFound(new_leader_port, new_follower_port) ==
    new_leader_port # NoPort /\ new_follower_port # NoPort

InitPair ==
    /\ session \in {"bimanual", "retry"}
    /\ config \in (IF session = "retry" THEN BOOLEAN ELSE {FALSE})
    /\ stage = 1
    /\ first_ret = [kind |-> "pending"]
    /\ pair_ret = PairPending
    /\ arm_type = FirstArmType(session)
    /\ robot_type = "None"
    /\ use_auto_detect = TRUE
    /\ osPorts \in SUBSET (1..MaxPorts)
    /\ ports_before = {}
    /\ ports_after = {}
    /\ ports_unplugged = {}
    /\ candidates = <<>>
    /\ mpc = "start"
    /\ flow = "none"
    /\ mret = [kind |-> "pending"]
    /\ auto = [outcome |-> "pending", port |-> NoPort]
    /\ mlog = <<>>
    /\ hw = EmptyMap /\ ports = <<>> /\ idx = 1 /\ leader_port = NoPort
    /\ follower_port = NoPort /\ detected_robot_type = "None" /\ port_info = <<>>
    /\ dpc = "idle" /\ ret = <<NoPort, NoPort, "None">>
    /\ both_ret = <<NoPort, NoPort, "None">> /\ probe_log = <<>> /\ volt_log = <<>>
    /\ IdleClassify /\ IdleProbe /\ IdleEnum

PairFrame ==
    UNCHANGED <<session, config, robot_type, use_auto_detect, osPorts, hw, ports, idx,
                leader_port, follower_port, port_info, dpc, ret, both_ret, probe_log, volt_log,
                varsClassify, varsProbe, varsEnum>>

\* The first detect_arm_port call returned and the second one is entered
\* with fresh locals.
SecondCall ==
    /\ stage = 1 /\ mpc = "done" /\ pair_ret.kind = "pending"
    /\ mret.kind = "returned"
    /\ session = "bimanual" => AttemptsRight(mret.port)
    /\ first_ret' = [kind |-> "returned", port |-> mret.port]   \* left_port, _ = ...
    /\ stage' = 2
    /\ arm_type' = SecondArmType(session)
    /\ detected_robot_type' = robot_type
    /\ ports_before' = {} /\ ports_after' = {} /\ ports_unplugged' = {}
    /\ candidates' = <<>>
    /\ mpc' = "start"
    /\ flow' = "none"
    /\ mret' = [kind |-> "pending"]
    /\ auto' = [outcome |-> "pending", port |-> NoPort]
    /\ mlog' = <<>>
    /\ UNCHANGED pair_ret
    /\ PairFrame

PairLocals ==
    UNCHANGED <<stage, first_ret, arm_type, detected_robot_type,
                ports_before, ports_after, ports_unplugged, candidates, mpc, flow,
                mret, auto, mlog>>

\* detect_bimanual_arm_ports returns: (None, None) after the left call found
\* nothing, else (left_port, right_port) with right_port None when not found.
BimanualReturn ==
    /\ session = "bimanual" /\ mpc = "done" /\ pair_ret.kind = "pending"
    /\ mret.kind = "returned"
    /\ \/ /\ stage = 1 /\ ~AttemptsRight(mret.port)
          /\ pair_ret' = [kind |-> "returned", ports |-> <<NoPort, NoPort>>,
                          saved |-> FALSE]
       \/ /\ stage = 2
          /\ pair_ret' = [kind |-> "returned", ports |-> <<first_ret.port, mret.port>>,
                          saved |-> FALSE]
    /\ PairLocals
    /\ PairFrame

\* detect_and_retry_ports after both calls: save (when a config was given)
\* and return the two ports, or raise ValueError.
RetryReturn ==
    /\ session = "retry" /\ stage = 2 /\ mpc = "done" /\ pair_ret.kind = "pending"
    /\ mret.kind = "returned"
    /\ pair_ret' =
          (IF BothFound(first_ret.port, mret.port)
           THEN [kind |-> "returned", ports |-> <<first_ret.port, mret.port>>,
                 saved |-> config]
           ELSE [kind |-> "raised", ports |-> <<NoPort, NoPort>>, saved |-> FALSE])
    /\ PairLocals
    /\ PairFrame

\* A ValueError from int(Prompt.ask(...)) inside either call is not caught.
PairRaise ==
    /\ mpc = "done" /\ pair_ret.kind = "pending"
    /\ mret.kind = "raised"
    /\ pair_ret' = [kind |-> "raised", ports |-> <<NoPort, NoPort>>, saved |-> FALSE]
    /\ PairLocals
    /\ PairFrame

NextPair ==
    \/ AutoDetected \/ ManualStart \/ PlugEnter \/ UnplugEnter \/ ReplugOneEnter
    \/ ChooseNew \/ ChooseMissing \/ ReplugChosenEnter
    \/ SecondCall \/ BimanualReturn \/ RetryReturn \/ PairRaise

SpecPair == InitPair /\ [][NextPair]_vars

(***************************************************************************)
(* SpecSelect: the selection step of detect_arm_port on its own, for every *)
(* list of candidates and every line the operator can type.                *)
(***************************************************************************)
\* choice = int(Prompt.ask("Enter port number", default="1")), then the
\* listed port for an in-range choice and the first listed port otherwise:
\* ("returned", port) or ("raised", error)
SelectPort(cands, line) ==
    LET c == IntOf(PromptAsk(line, <<"1">>)) IN
    IF c.ok THEN <<"returned", Selected(cands, c.v)>>
    ELSE <<"raised", "ValueError">>

\* new_ports / missing_ports with more than one element, in any order
CandidateLists ==
    UNION {ListsOf(S) : S \in {T \in SUBSET (1..MaxPorts) : Cardinality(T) > 1}}

InitSelect ==
    /\ clsCall \in [fn : {"select_port"}, cands : CandidateLists, line : InputLines]
    /\ clsResult = "pending"
    /\ IdleProbe /\ IdleDetect /\ IdleManual /\ IdleEnum

CallSelectPort ==
    /\ clsCall.fn = "select_port"
    /\ clsResult = "pending"
    /\ clsResult' = SelectPort(clsCall.cands, clsCall.line)
    /\ UNCHANGED <<clsCall, varsProbe, varsDetect, varsManual, varsEnum>>

NextSelect == CallSelectPort

SpecSelect == InitSelect /\ [][NextSelect]_vars

(***************************************************************************)
(* SpecEnum: get_serial_ports called repeatedly while the OS keeps the     *)
(* same serial ports.  A port is [device, alias, vid, bluetooth]: device   *)
(* stands for the name by its rank in string order, alias is the macOS     *)
(* node kind ("tty", "cu"; "none" elsewhere), vid is the USB vendor ID and *)
(* bluetooth says whether the description contains "Bluetooth".            *)
(***************************************************************************)
\* At most this many serial ports exist at once.
MaxNodes == 3
\* get_serial_ports is called at most this many times.
MaxCalls == 2

\* port.vid is None
NoVid == 0

\* The part after "/dev/tty." or "/dev/cu." of the macOS names, cut at its
\* dots, listed in string order: usbmodemA, usbmodemA.1, usbmodemB,
\* usbmodemB.1, usbserialA.
DarwinNameTable ==
    << <<"usbmodemA">>, <<"usbmodemA", "1">>, <<"usbmodemB">>,
       <<"usbmodemB", "1">>, <<"usbserialA">> >>

NodesOf(pf) ==
    IF pf = "win32"
    THEN [device : 1..MaxNodes, alias : {"none"}, vid : {NoVid, 6790}, bluetooth : BOOLEAN]
    ELSE IF pf = "darwin"
    THEN [device : 1..Len(DarwinNameTable), alias : {"tty", "cu"}, vid : {NoVid},
          bluetooth : {FALSE}]
    ELSE [device : 1..MaxNodes, alias : {"none"}, vid : {NoVid}, bluetooth : {FALSE}]

\* Sets of ports with pairwise different paths.
OsStates(pf) ==
    {S \in SUBSET NodesOf(pf) :
        /\ Cardinality(S) <= MaxNodes
        /\ \A p, q \in S : (p.device = q.device /\ p.alias = q.alias) => p = q}

\* Python's < on the path strings: "/dev/cu." sorts before "/dev/tty.".
PathLess(p, q) ==
    IF p.alias # q.alias THEN p.alias = "cu" ELSE p.device < q.device

\* sort_key: (0, port) for tty.*, (1, port) for cu.*
SortKeyLess(p, q) ==
    IF p.alias # q.alias THEN p.alias = "tty" ELSE p.device < q.device

\* device_id = port.split(".")[-1]
DeviceId(port) ==
    DarwinNameTable[port.device][Len(DarwinNameTable[port.device])]

\* Path(port.replace("/cu.", "/tty.")).exists()
TtyVersionExists(port, existing) ==
    \E q \in existing : q.device = port.device /\ q.alias = "tty"

\* for port in sorted(ports, key=sort_key): ... from position i on
RECURSIVE FilterFrom(_, _, _, _, _)
FilterFrom(sorted_ports, i, seen_devices, filtered_ports, existing) ==
    IF i > Len(sorted_ports) THEN filtered_ports
    ELSE LET port == sorted_ports[i] IN
         IF DeviceId(port) \in seen_devices
         THEN FilterFrom(sorted_ports, i + 1, seen_devices, filtered_ports, existing)
         ELSE FilterFrom(sorted_ports, i + 1, seen_devices \cup {DeviceId(port)},
                         IF port.alias = "tty" \/ ~TtyVersionExists(port, existing)
                         THEN Append(filtered_ports, port) ELSE filtered_ports,
                         existing)

\* the win32 branch on what list_ports.comports() yields
ComportsBranch(listing, import_ok) ==
    IF ~import_ok THEN <<>>
    ELSE LET usb_ports == SelectSeq(listing, LAMBDA p : ~p.bluetooth /\ p.vid # NoVid)
             other_ports == SelectSeq(listing, LAMBDA p : ~p.bluetooth /\ p.vid = NoVid)
         IN usb_ports \o other_ports

\* the darwin branch on what the globs yield
DarwinBranch(listing, existing) ==
    FilterFrom(SortSeq(listing, SortKeyLess), 1, {}, <<>>, existing)

SortedPorts_AsListed(ps) == ps

\* return sorted(ports)
SortedPorts(ps) == SortSeq(ps, PathLess)

\* get_serial_ports with every branch, on the ports in the order the OS
\* reports them
EnumeratePorts(pf, listing, import_ok, existing) ==
    SortedPorts(IF pf = "win32" THEN ComportsBranch(listing, import_ok)
                ELSE IF pf = "darwin" THEN DarwinBranch(listing, existing)
                ELSE listing)

InitEnum ==
    /\ platform \in {"win32", "darwin", "linux"}
    /\ pyserial \in (IF platform = "win32" THEN BOOLEAN ELSE {TRUE})
    /\ os_nodes \in OsStates(platform)
    /\ reported = <<>>
    /\ enum_results = <<>>
    /\ IdleClassify /\ IdleProbe /\ IdleDetect /\ IdleManual

\* One call of get_serial_ports; the OS reports its ports in some order.
GetSerialPorts ==
    /\ Len(enum_results) < MaxCalls
    /\ \E listing \in ListsOf(os_nodes) :
          /\ reported' = listing
          /\ enum_results' = Append(enum_results,
                EnumeratePorts(platform, listing, pyserial, os_nodes))
    /\ UNCHANGED <<platform, pyserial, os_nodes>>
    /\ UNCHANGED <<varsClassify, varsProbe, varsDetect, varsManual>>

NextEnum == GetSerialPorts

SpecEnum == InitEnum /\ [][NextEnum]_vars

(***************************************************************************)
(* Properties                                                              *)
(***************************************************************************)

\* C1 (SpecProbe): a worker whose serial I/O never returns does not block the
\* caller of scan_dynamixel_port / scan_feetech_port: while the call has not
\* returned, the caller can always take its next step (time out, then return
\* the empty map).
C1_HungWorkerNeverBlocksCaller ==
    (wpc = "hung" /\ cpc \notin {"returned", "interrupted"}) => ENABLED CallerStep

\* Ports of the pass, in enumeration order, that auto_detect_ports classifies
\* as role among the first n.
ClassifiedAs(role, n) ==
    {i \in 1..n : /\ detect_robot_type_from_port(hw[ports[i]])[3] # EmptyMap
                  /\ PortArmType(hw[ports[i]]) = role}

FirstClassified(role, n) ==
    IF ClassifiedAs(role, n) = {} THEN NoPort ELSE ports[Min(ClassifiedAs(role, n))]

\* C2 (SpecDetect): first-found-wins.  After any number of loop iterations
\* the leader slot holds the first port, in enumeration order, among those
\* scanned so far that is classified "leader", the follower slot the first
\* classified "follower" (so a later port never overwrites a filled slot),
\* and the returned ports are the first such ports of the whole list.
C2_FirstFoundWins ==
    dpc \in {"loop", "returned", "done"} =>
        /\ leader_port = FirstClassified("leader", idx - 1)
        /\ follower_port = FirstClassified("follower", idx - 1)
        /\ dpc \in {"returned", "done"} =>
              /\ ret[1] = FirstClassified("leader", Len(ports))
              /\ ret[2] = FirstClassified("follower", Len(ports))

\* Two ports are classified "leader" and the pass returned the first of them.
C2_Witness ==
    /\ dpc = "returned"
    /\ Cardinality(ClassifiedAs("leader", Len(ports))) >= 2
    /\ ret[1] = ports[Min(ClassifiedAs("leader", Len(ports)))]
    /\ \E i \in ClassifiedAs("leader", Len(ports)) : ports[i] # ret[1]

\* C3 (SpecDetect): in every state of a pass a port holds at most one role:
\* when the leader slot and the follower slot are both filled they hold
\* different ports, and so do the returned leader and follower.
C3_OneRolePerPort ==
    /\ (leader_port # NoPort /\ follower_port # NoPort) => leader_port # follower_port
    /\ (ret[1] # NoPort /\ ret[2] # NoPort) => ret[1] # ret[2]

\* A pass returned with both slots filled.
C3_Witness ==
    /\ dpc = "returned"
    /\ ret[1] # NoPort
    /\ ret[2] # NoPort

\* C4 (SpecClassify): model-number classification of the Dynamixel family.  A
\* non-empty subset of {1190} gives "leader"; a set that is not such a subset
\* and meets {1060, 1200, 1020, 1120, 1070} gives "follower", mixed sets
\* included; the empty set and every other set give no role.
C4_ModelClassification ==
    (/\ clsCall.fn = "detect_arm_type_from_models"
     /\ clsCall.motor_brand = "dynamixel"
     /\ clsResult # "pending") =>
        LET m == clsCall.models
            pureLeader == m # {} /\ m \subseteq {1190}
            hasFollower == m \cap {1060, 1200, 1020, 1120, 1070} # {}
        IN /\ pureLeader => clsResult = "leader"
           /\ (~pureLeader /\ hasFollower) => clsResult = "follower"
           /\ (~pureLeader /\ ~hasFollower) => clsResult = "None"

\* A set mixing a leader model and a follower model was classified "follower".
C4_Witness ==
    /\ clsCall.fn = "detect_arm_type_from_models"
    /\ clsCall.motor_brand = "dynamixel"
    /\ clsCall.models = {1190, 1060}
    /\ clsResult = "follower"

\* C5 (SpecClassify): voltage classification.  For every raw register value
\* returned with communication success, below 8.0 V (raw < 80) gives "leader"
\* and 8.0 V or more gives "follower"; a failed read (port not opened, an
\* exception, no communication success) gives no role.
C5_VoltageClassification ==
    (clsCall.fn = "detect_so_arm_type_by_voltage" /\ clsResult # "pending") =>
        LET rd == clsCall.rd
            readOk == rd.open /\ ~rd.raises /\ rd.success
        IN /\ (readOk /\ rd.raw < 80) => clsResult = "leader"
           /\ (readOk /\ rd.raw >= 80) => clsResult = "follower"
           /\ ~readOk => clsResult = "None"

\* C6 (SpecProbe): after a transport fault at any point of the probe (the
\* port fails to open, or a ping or register read raises), the map the probe
\* returns has no entries, whatever had answered before the fault.
C6_FaultGivesEmptyMap ==
    (cpc = "returned" /\ fault) => DOMAIN result = {}

\* C7 (SpecDetect): with no serial port present the enumeration is empty and
\* auto_detect_ports and auto_detect_both_ports return (None, None, None),
\* whatever the robot-type hint.
C7_NoPortsGivesNones ==
    (DOMAIN hw = {} /\ dpc \in {"returned", "done"}) =>
        /\ ports = <<>>
        /\ ret = <<NoPort, NoPort, "None">>
        /\ dpc = "done" => both_ret = <<NoPort, NoPort, "None">>

\* auto_detect_both_ports returned with no port present and a hint given.
C7_Witness ==
    /\ DOMAIN hw = {}
    /\ robot_type = "koch"
    /\ dpc = "done"
    /\ both_ret = <<NoPort, NoPort, "None">>

\* Robot family of the first port in enumeration order on which motors were
\* found, "None" when no port has motors.
HasMotors(i) == detect_robot_type_from_port(hw[ports[i]])[3] # EmptyMap

FirstFamily ==
    LET withMotors == {i \in 1..Len(ports) : HasMotors(i)} IN
    IF withMotors = {} THEN "None"
    ELSE detect_robot_type_from_port(hw[ports[Min(withMotors)]])[1]

\* C8 (SpecDetect): auto_detect_ports returns (first port classified leader,
\* first port classified follower, robot type); the robot type is the hint
\* when a hint is given and a port is present, and otherwise the family of
\* the first port in enumeration order on which motors were found.
C8_ResultTriple ==
    dpc \in {"returned", "done"} =>
        ret = <<FirstClassified("leader", Len(ports)),
                FirstClassified("follower", Len(ports)),
                IF robot_type # "None" /\ ports # <<>> THEN robot_type ELSE FirstFamily>>

\* Ports 1, 2, 3 with Dynamixel {1190}, Dynamixel {1060} and no motors, no
\* hint: the pass returned (1, 2, "koch").
C8_Witness ==
    /\ dpc = "returned"
    /\ robot_type = "None"
    /\ DOMAIN hw = {1, 2, 3}
    /\ hw[1].dxl = 1 :> 1190
    /\ hw[2].dxl = 1 :> 1060
    /\ ~HasMotors(3)
    /\ ret = <<1, 2, "koch">>

\* C9 (SpecManual): set difference of the manual fallback.  When exactly one
\* port is in ports_after and not in ports_before, that port is returned; in
\* the unplug flow, when exactly one port is in ports_before and not in
\* ports_unplugged, that port is returned; a port in both snapshots of the
\* flow that produced the answer is never returned.
C9_SetDifference ==
    (mpc = "done" /\ flow \in {"plug", "unplug"}) =>
        /\ Cardinality(ports_after \ ports_before) = 1 =>
              /\ mret.kind = "returned"
              /\ {mret.port} = ports_after \ ports_before
        /\ (flow = "unplug" /\ Cardinality(ports_before \ ports_unplugged) = 1) =>
              /\ mret.kind = "returned"
              /\ {mret.port} = ports_before \ ports_unplugged
        /\ (mret.kind = "returned" /\ mret.port # NoPort) =>
              IF flow = "plug"
              THEN mret.port \notin ports_before \cap ports_after
              ELSE mret.port \notin ports_before \cap ports_unplugged

\* Before {1, 2, 3}, nothing new on plug-in, {1, 2} after unplugging: port 3
\* was returned.
C9_Witness ==
    /\ mpc = "done"
    /\ flow = "unplug"
    /\ ports_before = {1, 2, 3}
    /\ ports_unplugged = {1, 2}
    /\ mret.kind = "returned"
    /\ mret.port = 3

\* C10 (SpecManual): detect_arm_port ends by returning a port or None for
\* every line the operator types; it never ends by raising.
C10_NeverRaisesOnInput ==
    mpc = "done" => mret.kind = "returned"

\* C11 (SpecManual): detect_arm_port takes the manual flow, starting with a
\* port snapshot and the plug-in prompt, exactly when the automatic stage was
\* switched off, raised, or returned no port for the role; when it returned a
\* port, that port is the result and no snapshot was taken and no prompt
\* issued.
C11_ManualExactlyOnAutoFailure ==
    mpc # "start" =>
        /\ (flow # "auto") <=>
              (auto.outcome \in {"disabled", "raised"} \/ auto.port = NoPort)
        /\ flow # "auto" =>
              /\ Len(mlog) >= 2
              /\ SubSeq(mlog, 1, 2) = <<"snapshot_before", "prompt_plug">>
        /\ flow = "auto" =>
              /\ mpc = "done"
              /\ mret.kind = "returned"
              /\ mret.port = auto.port
              /\ mlog = <<>>

\* The automatic stage ran to completion without a port for the role and the
\* manual flow went on to return a port.
C11_Witness ==
    /\ mpc = "done"
    /\ auto.outcome = "completed"
    /\ auto.port = NoPort
    /\ flow = "plug"
    /\ mret.kind = "returned"
    /\ mret.port # NoPort

\* The scan map family f returns on the port with attachment c.
ScanResult(c, f) ==
    IF f = "dynamixel" THEN scan_dynamixel_port(c)
    ELSE IF f = "feetech0" THEN scan_feetech_port(c, 0)
    ELSE scan_feetech_port(c, 1)

\* C12 (SpecDetect): on each port the scans are issued in the order
\* Dynamixel, Feetech protocol 0, Feetech protocol 1; a scan that returned a
\* motor is the last scan of that port, and a later family is scanned only
\* directly after the scan of the family before it returned an empty map.
C12_ProbingOrder ==
    \A i \in 1..Len(probe_log) :
        LET e == probe_log[i] IN
        /\ e.family = "dynamixel" =>
              (i = 1 \/ probe_log[i - 1].port # e.port)
        /\ e.family = "feetech0" =>
              /\ i > 1
              /\ probe_log[i - 1] = [port |-> e.port, family |-> "dynamixel"]
              /\ ScanResult(hw[e.port], "dynamixel") = EmptyMap
        /\ e.family = "feetech1" =>
              /\ i > 1
              /\ probe_log[i - 1] = [port |-> e.port, family |-> "feetech0"]
              /\ ScanResult(hw[e.port], "dynamixel") = EmptyMap
              /\ ScanResult(hw[e.port], "feetech0") = EmptyMap
        /\ (ScanResult(hw[e.port], e.family) # EmptyMap /\ i < Len(probe_log)) =>
              probe_log[i + 1].port # e.port

\* A pass scanned one port whose Dynamixel scan found a motor although the
\* bus also answers Feetech protocol 0, and a second port down to protocol 1.
C12_Witness ==
    /\ dpc = "returned"
    /\ \E p \in DOMAIN hw :
          /\ hw[p].dxl # EmptyMap
          /\ hw[p].ft0 # EmptyMap
          /\ \E i \in 1..Len(probe_log) : probe_log[i].port = p
    /\ \E i \in 1..Len(probe_log) :
          /\ probe_log[i].family = "feetech1"
          /\ hw[probe_log[i].port].ft1 # EmptyMap

\* C13 (SpecClassify): the family tag follows from which scan matched and
\* from nothing else.  Dynamixel matched gives "koch"; else Feetech protocol 0
\* matched gives "so101"; else Feetech protocol 1 matched gives "so100", each
\* with the matching scan's map; no match gives no type, no brand and the
\* empty map.  The model numbers in the maps play no part.
C13_TagByProtocol ==
    clsCall.fn = "detect_robot_type_from_port" =>
        (clsResult = "pending" \/
         LET c == clsCall.c IN
         /\ c.dxl # EmptyMap => clsResult = <<"koch", "dynamixel", c.dxl>>
         /\ (c.dxl = EmptyMap /\ c.ft0 # EmptyMap) =>
               clsResult = <<"so101", "feetech", c.ft0>>
         /\ (c.dxl = EmptyMap /\ c.ft0 = EmptyMap /\ c.ft1 # EmptyMap) =>
               clsResult = <<"so100", "feetech", c.ft1>>
         /\ (c.dxl = EmptyMap /\ c.ft0 = EmptyMap /\ c.ft1 = EmptyMap) =>
               clsResult = <<"None", "None", EmptyMap>>)

\* A port answering Feetech protocol 0 with a model other than the STS3215
\* was tagged "so101".
C13_Witness ==
    /\ clsCall.fn = "detect_robot_type_from_port"
    /\ clsCall.c.dxl = EmptyMap
    /\ clsCall.c.ft0 = 1 :> 2825
    /\ clsResult # "pending"
    /\ clsResult[1] = "so101"

\* C14 (SpecEnum): calls of get_serial_ports on the same OS port state return
\* the same ordered sequence, in whatever orders the OS reported the ports.
C14_EnumerationIdempotent ==
    \A i, j \in 1..Len(enum_results) : enum_results[i] = enum_results[j]

\* Two calls have returned at least two ports, the second after the OS
\* reported them in another order than the one returned.
C14_Witness ==
    /\ Len(enum_results) = 2
    /\ reported # enum_results[2]
    /\ Len(enum_results[1]) >= 2
    /\ Len(enum_results[2]) >= 2

\* C15 (SpecEnum): on win32 the returned sequence has no port whose
\* description contains "Bluetooth", and every port with a USB vendor ID
\* comes before every port without one.
C15_UsbFirstNoBluetooth ==
    platform = "win32" =>
        \A k \in 1..Len(enum_results) :
            LET r == enum_results[k] IN
            /\ \A i \in 1..Len(r) : ~r[i].bluetooth
            /\ \A i, j \in 1..Len(r) :
                  (r[i].vid = NoVid /\ r[j].vid # NoVid) => j < i

\* C16 (SpecEnum): on darwin every device with a node present appears exactly
\* once in the result, as its tty.* node when that exists and as its cu.*
\* node otherwise.
C16_OneNodePerDevice ==
    platform = "darwin" =>
        \A k \in 1..Len(enum_results) :
            LET r == enum_results[k] IN
            \A n \in os_nodes :
                /\ Cardinality({i \in 1..Len(r) : r[i].device = n.device}) = 1
                /\ \A i \in 1..Len(r) :
                      r[i].device = n.device =>
                          r[i].alias = (IF TtyVersionExists(n, os_nodes)
                                        THEN "tty" ELSE "cu")

\* How many handlers hold the port open.
OpenHandles == Cardinality(leaked) + (IF portOpen THEN 1 ELSE 0)

\* C17 (SpecProbe): the operations on one port never hold it open two at a
\* time: each probe, a timed-out one included, and each voltage read has
\* closed the port before the next operation opens it.
C17_PortExclusive == OpenHandles <= 1

\* C18 (SpecProbe): when a probe or a voltage read returns, its handler does
\* not hold the port open, whichever way it ended.
C18_ClosedOnReturn == cpc \in {"returned", "done"} => ~portOpen

\* C20 (SpecProbe): once a keyboard interrupt has been raised while the
\* session waits for a probe, the session is not kept waiting on the worker:
\* the interrupt can propagate even if the worker never ends.
C20_InterruptNotKeptWaiting ==
    (cpc = "unwinding" /\ wpc = "hung") => ENABLED PropagateInterrupt

\* The ports the pass has called detect_robot_type_from_port on, in order:
\* every call starts with the Dynamixel scan.
PortsProbed ==
    LET first == SelectSeq(probe_log, LAMBDA e : e.family = "dynamixel")
    IN [k \in 1..Len(first) |-> first[k].port]

\* C19 (SpecDetect): a pass probes the enumerated ports in order, each once:
\* while it runs the ports probed are the first idx - 1 of the enumeration,
\* and when it returns they are the whole enumeration, also when both slots
\* were filled before the last port.
C19_NoEarlyExit ==
    /\ dpc = "loop" =>
          /\ idx <= Len(ports) + 1
          /\ PortsProbed = SubSeq(ports, 1, idx - 1)
    /\ (dpc \in {"returned", "done"} /\ ports # <<>>) => PortsProbed = ports

\* A pass over three ports filled both slots on the first two and still
\* scanned the third.
C19_Witness ==
    /\ dpc = "returned"
    /\ Len(ports) = 3
    /\ leader_port \in {ports[1], ports[2]}
    /\ follower_port \in {ports[1], ports[2]}
    /\ \E i \in 1..Len(probe_log) : probe_log[i].port = ports[3]

\* detect_arm_port has returned None for the port.
NotFoundReturned == mpc = "done" /\ mret.kind = "returned" /\ mret.port = NoPort

\* The unplug/replug flow was run: the operator was asked to disconnect and
\* the ports were snapshotted again.
UnplugFlowRun ==
    /\ Len(mlog) >= 5
    /\ mlog[4] = "prompt_unplug"
    /\ mlog[5] = "snapshot_unplugged"

\* C21 as stated: every not-found result of the manual flow comes after the
\* unplug/replug flow was run.
C21_UnplugBeforeNotFound == NotFoundReturned => UnplugFlowRun

\* C21 (SpecManual), amended: when the plug-in step reveals no new port and
\* the before-snapshot was not empty, the unplug/replug flow is run, and
\* not-found is returned only after it found no missing port; when the
\* before-snapshot was empty there is nothing to unplug and not-found is
\* returned at once.
C21_UnplugFlowWhenPortsExisted ==
    /\ (mpc \notin {"start", "wait_plug"} /\ flow # "auto"
        /\ SnapshotDiff(ports_after, ports_before) = {} /\ ports_before # {})
          => (flow = "unplug" /\ Len(mlog) >= 4 /\ mlog[4] = "prompt_unplug")
    /\ NotFoundReturned =>
          /\ SnapshotDiff(ports_after, ports_before) = {}
          /\ IF ports_before = {}
             THEN mlog = <<"snapshot_before", "prompt_plug", "snapshot_after">>
             ELSE /\ UnplugFlowRun
                  /\ SnapshotDiff(ports_before, ports_unplugged) = {}

\* Not-found was returned after the unplug/replug flow saw no port disappear.
C21_Witness ==
    /\ NotFoundReturned
    /\ flow = "unplug"
    /\ ports_before # {}
    /\ UnplugFlowRun


\* The selection step returned a port.
SelectReturned ==
    /\ clsCall.fn = "select_port"
    /\ clsResult # "pending"
    /\ clsResult[1] = "returned"

\* C22 (SpecSelect): with several candidates listed, the port returned is one
\* of the listed ports: the k-th for a number k within 1..n, the first for
\* the default answer (an empty line) and for any number outside 1..n.
C22_SelectionFromList ==
    SelectReturned =>
        LET cands == clsCall.cands
            n == Len(cands)
            typed == IntOf(PromptAsk(clsCall.line, <<"1">>))
        IN /\ \E i \in 1..n : clsResult[2] = cands[i]
           /\ typed.ok
           /\ (1 <= typed.v /\ typed.v <= n) => clsResult[2] = cands[typed.v]
           /\ (typed.v < 1 \/ typed.v > n) => clsResult[2] = cands[1]
           /\ clsCall.line = <<>> => clsResult[2] = cands[1]
           /\ clsCall.line = <<"2">> => clsResult[2] = cands[2]
           /\ clsCall.line \in {<<"0">>, <<"4", "4">>, <<"-", "1">>} =>
                 clsResult[2] = cands[1]

\* Two candidates were listed, the operator typed 44 and the first listed
\* port, which is not the last, was returned.
C22_Witness ==
    /\ SelectReturned
    /\ Len(clsCall.cands) = 2
    /\ clsCall.line = <<"4", "4">>
    /\ clsResult[2] = clsCall.cands[1]

\* ---------------------------------------------------------------------------
\* C23: detect_bimanual_arm_ports resolves left then right in sequence, each
\* call reaching the plug-in prompt; the right call starts only after the
\* left call returned a port; a left arm not found gives (None, None) with
\* no right call; a right arm not found gives (left_port, None).
\* ---------------------------------------------------------------------------
C23_BimanualSequence ==
    session = "bimanual" =>
        /\ stage = 2 => first_ret.kind = "returned" /\ first_ret.port # NoPort
        /\ mpc = "done" => (\E i \in DOMAIN mlog : mlog[i] = "prompt_plug")
        /\ (stage = 1 /\ mpc = "done" /\ mret.kind = "returned" /\ mret.port = NoPort) =>
              ~ENABLED SecondCall
        /\ pair_ret.kind = "returned" =>
              IF stage = 1
              THEN mret.port = NoPort /\ pair_ret.ports = <<NoPort, NoPort>>
              ELSE pair_ret.ports = <<first_ret.port, mret.port>>

C23_Witness ==
    /\ session = "bimanual" /\ stage = 2 /\ pair_ret.kind = "returned"
    /\ pair_ret.ports[1] # NoPort /\ pair_ret.ports[2] = NoPort

\* ---------------------------------------------------------------------------
\* C30: whenever detect_bimanual_arm_ports returns both a left and a right
\* port, the two ports are different.
\* ---------------------------------------------------------------------------
C30_BimanualPortsDiffer ==
    (session = "bimanual" /\ pair_ret.kind = "returned"
       /\ pair_ret.ports[1] # NoPort /\ pair_ret.ports[2] # NoPort)
    => pair_ret.ports[1] # pair_ret.ports[2]

\* ---------------------------------------------------------------------------
\* C26: detect_and_retry_ports never returns or saves the same port as both
\* the new leader port and the new follower port.
\* ---------------------------------------------------------------------------
C26_RetryPortsDiffer ==
    (session = "retry" /\ pair_ret.kind = "returned")
    => pair_ret.ports[1] # pair_ret.ports[2]

\* ---------------------------------------------------------------------------
\* C24: when several robot families are detected in one
\* auto_detect_robot_type pass, the returned type is the family of the first
\* port in enumeration order that had motors.
\* ---------------------------------------------------------------------------
C24_FirstFoundWins ==
    (clsCall.fn = "auto_detect_robot_type" /\ clsResult # "pending"
       /\ Cardinality(DetectedTypes(clsCall.hw)) > 1)
    => clsResult[2] = detect_robot_type_from_port(clsCall.hw[clsResult[3][1]])[1]

\* ---------------------------------------------------------------------------
\* C25 (as stated): a probe that reached its loop has, when it returns,
\* pinged every id 1..20, and the returned map's keys are exactly the ids
\* whose ping succeeded.
\* ---------------------------------------------------------------------------
C25_AllIdsPingedKeysExact ==
    cpc = "returned" =>
        /\ pings # <<>> => Len(pings) = LastMotorId
        /\ DOMAIN result = acked

LoopCompleted == wpc = "returned" /\ motor_id = LastMotorId + 1

\* ---------------------------------------------------------------------------
\* C25 (amended): the ids pinged are 1, 2, 3, ... in ascending order, each
\* once, none outside 1..20, and all of 1..20 once the loop has completed;
\* the keys stored and returned are ids whose ping succeeded, and exactly
\* those when the loop completed and its result arrived before the timeout.
\* ---------------------------------------------------------------------------
C25_PingsAscendingKeysAcked ==
    /\ Len(pings) <= LastMotorId
    /\ \A i \in DOMAIN pings : pings[i] = i
    /\ acked \subseteq DOMAIN pings
    /\ DOMAIN found \subseteq acked
    /\ LoopCompleted => Len(pings) = LastMotorId /\ DOMAIN found = acked
    /\ cpc = "returned" =>
          /\ DOMAIN result \subseteq acked
          /\ (LoopCompleted /\ timer = "cancelled") => DOMAIN result = acked

C25_Witness ==
    /\ cpc = "returned" /\ LoopCompleted /\ timer = "cancelled"
    /\ Cardinality(DOMAIN result) = MaxMotors
    /\ LastMotorId \in DOMAIN result

\* ---------------------------------------------------------------------------
\* C27: when auto_detect_ports is called with no hint, every port it assigns
\* as leader or follower belongs to the robot family it returns as the type.
\* ---------------------------------------------------------------------------
C27_AssignedPortsOfReturnedType ==
    (dpc = "returned" /\ robot_type = "None") =>
        \A p \in {ret[1], ret[2]} \ {NoPort} :
            detect_robot_type_from_port(hw[p])[1] = ret[3]

\* ---------------------------------------------------------------------------
\* C28: a voltage read that never returns does not stop the caller: as for
\* the probes, a timeout lets the caller go on.
\* ---------------------------------------------------------------------------
C28_VoltageReadBounded ==
    cpc = "voltage_hung" => ENABLED (CallerStep \/ VoltageRead \/ VoltageRaises)

\* ---------------------------------------------------------------------------
\* C29: the voltage read on a Feetech port uses the protocol variant whose
\* scan found the port's motors.
\* ---------------------------------------------------------------------------
C29_VoltageReadUsesMatchedProtocol ==
    \A i \in DOMAIN volt_log :
        volt_log[i].protocol = MatchedProtocol(hw[volt_log[i].port])
====
